---- MODULE Spec2Model ----
(***************************************************************************)
(* A model of the plan-execute-extract pipeline of the web navigator       *)
(* agent: Orchestrator.execute (orchestrator.py) driving a BrowserController*)
(* (browser_controller.py) through the plan StepPlanner.plan (planner.py)  *)
(* builds from the intent InstructionParser.parse (parser.py) returns,     *)
(* normalising what the extract steps return with ContentExtractor         *)
(* (extractor.py), and recording the task in SessionMemory                 *)
(* (session_memory.py) and DataStorage (storage.py).                       *)
(*                                                                         *)
(* Conventions.  Python's None is the string None for optional strings and *)
(* the empty sequence for optional numbers and price/rating strings: a     *)
(* price string "Rs n" is <<n>>, a missing price is <<>>.  A dict with     *)
(* optional keys is a record whose DOMAIN holds the keys present.  A       *)
(* record of the normaliser carries repr: "obj" for an ExtractedData       *)
(* object, "dict" for the dictionary to_dict() makes of it; attribute      *)
(* access on a "dict" raises AttributeError, getattr with a default        *)
(* returns the default.                                                    *)
(***************************************************************************)
EXTENDS Integers, Sequences, FiniteSets, TLC

VARIABLES
    pc,               \* position of the execute call
    instruction,      \* execute's argument
    task_id,          \* execute's local task_id (after "or uuid4()")
    given_id,         \* the caller-supplied task_id argument (None when absent)
    current_task_id,  \* Orchestrator.current_task_id
    execution_logs,   \* Orchestrator.execution_logs
    parsed,           \* parsed_instruction
    steps,            \* the plan
    step_i,           \* index of the step being executed (1-based)
    attempt,          \* attempt counter of _execute_step_with_retry
    last_error,       \* last_error of _execute_step_with_retry
    executed,         \* per step: the number of attempts made on it
    results,          \* the running result list of _execute_steps
    browser,          \* the resources the BrowserController holds
    error_msg,        \* the exception travelling to execute's except branch
    memories,         \* SessionMemory.memories
    session_context,  \* SessionMemory.session_context counters
    storage,          \* the task results DataStorage has written
    now,              \* the wall clock, in ticks
    uuids,            \* the number of uuid4() values drawn so far
    returned,         \* what execute returned (or the exception that escaped)
    fetched,          \* the payloads the extract steps got from the page, in order
    records,          \* the record list given to a ContentExtractor method
    call,             \* the last call made on a component directly, with its arguments
    ret,              \* what that call returned (or that it raised)
    current_adapter,  \* LLMManager.current_adapter
    suspended         \* the locals of the other execute call on the same orchestrator

vars == <<pc, instruction, task_id, given_id, current_task_id, execution_logs,
          parsed, steps, step_i, attempt, last_error, executed, results,
          browser, error_msg, memories, session_context, storage, now, uuids,
          returned, fetched, records, call, ret, current_adapter, suspended>>

\* the variables of the calls made on a component directly
unitVars == <<records, call, ret, current_adapter>>

\* the variables of an execute call
executeVars == <<pc, instruction, task_id, given_id, current_task_id, execution_logs,
                 parsed, steps, step_i, attempt, last_error, executed, results,
                 browser, error_msg, memories, session_context, storage, now, uuids,
                 returned, fetched, suspended>>

None == "None"

Truthy(s) == s # None /\ s # ""

Min(a, b) == IF a < b THEN a ELSE b

Max(a, b) == IF a > b THEN a ELSE b

\* d.get(k, default) of a dict modelled as a record
Get(d, k, default) == IF k \in DOMAIN d THEN d[k] ELSE default

EmptyDict == [k \in {} |-> 0]

(***************************************************************************)
(* Bounds of the model.                                                    *)
(***************************************************************************)
MaxFragments == 2

(***************************************************************************)
(* ContentExtractor (extractor.py).                                        *)
(***************************************************************************)

\* What a page element looks like to the normaliser: the text of an element
\* is given by what the regular expressions of the extractor find in it
\* (its cleaned text, its first price token, its first rating token).
Fragments ==
    { [text |-> <<[clean |-> "laptop a", price |-> <<1>>, rating |-> <<4>>]>>, href |-> <<"/a">>],
      [text |-> <<[clean |-> "laptop b", price |-> <<3>>, rating |-> <<5>>]>>, href |-> <<"https://shop/b">>],
      [text |-> <<[clean |-> "laptop c", price |-> <<>>, rating |-> <<>>]>>, href |-> <<>>] }

RECURSIVE SeqsUpTo(_, _)
SeqsUpTo(S, n) ==
    IF n = 0 THEN {<<>>}
    ELSE LET shorter == SeqsUpTo(S, n - 1)
         IN  shorter \cup {Append(s, x) : s \in {t \in shorter : Len(t) = n - 1}, x \in S}

Payloads == SeqsUpTo(Fragments, MaxFragments)

_clean_text(text) == text.clean

\* the first pattern of price_patterns that matches, group(1), with the
\* currency symbol put in front
_extract_price(text) == text.price

_extract_rating(text) == text.rating

_normalize_url(url) ==
    IF url = "" THEN ""
    ELSE CASE url = "https://shop/b" -> url
           [] url = "/a" -> "https://example.com" \o url
           [] OTHER -> "https://" \o url

ExtractedData(title, price, url, description, rating) ==
    [repr |-> "obj", title |-> title, price |-> price, url |-> url,
     description |-> description, rating |-> rating]

to_dict(data) == [data EXCEPT !.repr = "dict"]

\* any([title, price, url, description])
Meaningful(d) ==
    Truthy(d.title) \/ d.price # <<>> \/ Truthy(d.url) \/ Truthy(d.description)

FromItem(item) ==
    ExtractedData(
        IF item.text # <<>> THEN _clean_text(item.text[1]) ELSE None,
        IF item.text # <<>> THEN _extract_price(item.text[1]) ELSE <<>>,
        IF item.href # <<>> THEN _normalize_url(item.href[1]) ELSE None,
        IF item.text # <<>> THEN _clean_text(item.text[1]) ELSE None,
        IF item.text # <<>> THEN _extract_rating(item.text[1]) ELSE <<>>)

RECURSIVE extract_from_playwright_data(_)
extract_from_playwright_data(playwright_data) ==
    IF playwright_data = <<>> THEN <<>>
    ELSE LET data == FromItem(Head(playwright_data))
             rest == extract_from_playwright_data(Tail(playwright_data))
         IN  IF Meaningful(data) THEN <<data>> \o rest ELSE rest

\* item.<attr>: AttributeError on a dict
HasAttrs(item) == item.repr = "obj"

\* float(re.search(numeric token, price).group(1).replace(',', ''))
PriceValue(price) == price[1]

\* truthiness of an optional number (None and 0 are falsy)
NumTruthy(x) == x # <<>> /\ x[1] # 0

UpperCase == "ABCDEFGHIJKLMNOPQRSTUVWXYZ"

LowerCase == "abcdefghijklmnopqrstuvwxyz"

\* the lower-case letter of each upper-case letter
LowerOf ==
    [c \in {SubSeq(UpperCase, i, i) : i \in 1..Len(UpperCase)} |->
        LET i == CHOOSE i \in 1..Len(UpperCase) : SubSeq(UpperCase, i, i) = c
        IN  SubSeq(LowerCase, i, i)]

\* str.lower(), on a text
RECURSIVE Lower(_)
Lower(text) ==
    IF text = "" THEN ""
    ELSE LET c == SubSeq(text, 1, 1)
         IN  (IF c \in DOMAIN LowerOf THEN LowerOf[c] ELSE c)
             \o Lower(SubSeq(text, 2, Len(text)))

\* str.strip(), on a text
RECURSIVE Strip(_)
Strip(text) ==
    IF text = "" THEN ""
    ELSE IF SubSeq(text, 1, 1) = " " THEN Strip(SubSeq(text, 2, Len(text)))
    ELSE IF SubSeq(text, Len(text), Len(text)) = " "
         THEN Strip(SubSeq(text, 1, Len(text) - 1))
    ELSE text

\* str(value).lower().strip()
LowerStrip(s) == Strip(Lower(s))

\* '|'.join(key_parts)
RECURSIVE JoinKey(_)
JoinKey(key_parts) ==
    IF key_parts = <<>> THEN ""
    ELSE IF Len(key_parts) = 1 THEN key_parts[1]
    ELSE key_parts[1] \o "|" \o JoinKey(Tail(key_parts))

DefaultKeyFields == <<"title", "url">>

\* the key_parts of deduplicate: the normalised values of the key fields
\* that are truthy (a price or rating string is the text of its number)
RECURSIVE KeyParts(_, _)
KeyParts(item, key_fields) ==
    IF key_fields = <<>> THEN <<>>
    ELSE LET field == Head(key_fields)
             rest == KeyParts(item, Tail(key_fields))
         IN  IF ~HasAttrs(item) THEN rest   \* getattr(item, field, '') of a dict is ''
             ELSE IF field \in {"price", "rating"}
                  THEN (IF item[field] # <<>> THEN <<ToString(item[field][1])>> \o rest ELSE rest)
                  ELSE (IF Truthy(item[field]) THEN <<LowerStrip(item[field])>> \o rest ELSE rest)

\* a deduplication that drops nothing
KeepAll(data, key_fields) == data

\* a rating sort that leaves the order as it is
KeepOrder(data, reverse) == data

RECURSIVE DedupFrom(_, _, _)
DedupFrom(data, key_fields, seen) ==
    IF data = <<>> THEN <<>>
    ELSE LET key == JoinKey(KeyParts(Head(data), key_fields))
         IN  IF key \in seen
             THEN DedupFrom(Tail(data), key_fields, seen)
             ELSE <<Head(data)>> \o DedupFrom(Tail(data), key_fields, seen \cup {key})

deduplicate(data, key_fields) ==
    DedupFrom(data, IF key_fields = <<>> THEN DefaultKeyFields ELSE key_fields, {})

AnyDict(data) == \E i \in 1..Len(data) : ~HasAttrs(data[i])

\* filter_by_price reads item.price: AttributeError on a dict
filter_by_price_raises(data, max_price, min_price) ==
    (NumTruthy(max_price) \/ NumTruthy(min_price)) /\ AnyDict(data)

filter_by_price(data, max_price, min_price) ==
    IF ~NumTruthy(max_price) /\ ~NumTruthy(min_price) THEN data
    ELSE LET Keep(item) ==
                 /\ item.price # <<>>
                 /\ ~(NumTruthy(max_price) /\ PriceValue(item.price) > max_price[1])
                 /\ ~(NumTruthy(min_price) /\ PriceValue(item.price) < min_price[1])
         IN  SelectSeq(data, Keep)

\* sorted(data, key, reverse) is stable: of two records with equal keys the
\* one earlier in data stays earlier, in either direction
\* for each position of keys, the number of positions that a stable sort
\* puts ahead of it: those whose key goes first (greater when reverse,
\* smaller otherwise) and the earlier positions of an equal key
Ahead(keys, reverse) ==
    LET GoesFirst(j, i) == IF reverse THEN keys[j] > keys[i] ELSE keys[j] < keys[i]
    IN  SubSeq([i \in 1..Len(keys) |->
                   Cardinality({j \in 1..Len(keys) :
                                   GoesFirst(j, i) \/ (keys[j] = keys[i] /\ j < i)})],
               1, Len(keys))

\* the positions in sorted order, given the number of positions ahead of each
OrderOf(ahead) == [n \in 1..Len(ahead) |-> CHOOSE i \in 1..Len(ahead) : ahead[i] = n - 1]

\* the positions of keys in the order of a stable sort
SortedOrder(keys, reverse) == OrderOf(Ahead(SubSeq(keys, 1, Len(keys)), reverse))

\* the records of data at the positions of order
Reordered(data, order) == [n \in 1..Len(order) |-> data[order[n]]]

\* sorted(data, key=..., reverse=...), keys[i] being the key of data[i]
SortedBy(data, keys, reverse) == Reordered(data, SortedOrder(keys, reverse))

get_rating_value(item) == IF item.rating = <<>> THEN 0 ELSE item.rating[1]

\* the key function reads item.rating: AttributeError on a dict
sort_by_rating_raises(data) == AnyDict(data)

sort_by_rating(data, reverse) ==
    SortedBy(data, [n \in 1..Len(data) |-> get_rating_value(data[n])], reverse)

Infinity == 1000000

get_price_value(item, reverse) ==
    IF item.price = <<>> THEN (IF reverse THEN Infinity ELSE 0)
    ELSE PriceValue(item.price)

\* the key function reads item.price: AttributeError on a dict
sort_by_price_raises(data) == AnyDict(data)

sort_by_price(data, reverse) ==
    SortedBy(data, [n \in 1..Len(data) |-> get_price_value(data[n], reverse)], reverse)

\* data[:limit]
limit_results(data, limit) ==
    IF limit >= 0 THEN SubSeq(data, 1, Min(limit, Len(data)))
    ELSE SubSeq(data, 1, Max(0, Len(data) + limit))

(***************************************************************************)
(* InstructionParser (parser.py).  An instruction is the sequence of its   *)
(* words; the text it stands for has one space between two words.          *)
(***************************************************************************)
Instructions == { <<>>, <<"search", "laptops">>, <<"navigate", "home">> }

\* the text a sequence of words stands for
RECURSIVE Join(_)
Join(words) ==
    IF words = <<>> THEN ""
    ELSE IF Len(words) = 1 THEN words[1]
    ELSE words[1] \o " " \o Join(Tail(words))

\* sub in text, on texts
IsSubstring(sub, text) ==
    \E i \in 1..(Len(text) - Len(sub) + 1) : SubSeq(text, i, i + Len(sub) - 1) = sub

\* keyword in instruction_lower, the keyword given as its words
Contains(instr, kw) == IsSubstring(Join(kw), Lower(Join(instr)))

_get_default_selectors(task) ==
    CASE task = "navigate" -> [page_content |-> "body, main", navigation |-> "nav, .menu"]
      [] task = "extract" -> [content |-> "body, main", title |-> "h1, .title", text |-> "p, .text"]
      [] OTHER -> [search_box |-> "input[name=q]", search_button |-> "button[type=submit]",
                   results |-> ".result, .item", title |-> "h1, .title",
                   price |-> ".price", link |-> "a, .link"]

_get_default_actions(p) ==
    CASE p.task = "search" ->
            << [action |-> "goto", url |-> p.target_url],
               [action |-> "fill", selector |-> "input[name=q]", value |-> p.query],
               [action |-> "click", selector |-> "button[type=submit]"],
               [action |-> "wait", timeout |-> 3],
               [action |-> "extract", selector |-> ".result", multiple |-> TRUE] >>
      [] p.task = "navigate" ->
            << [action |-> "goto", url |-> p.target_url],
               [action |-> "wait", timeout |-> 2] >>
      [] p.task = "extract" ->
            << [action |-> "goto", url |-> p.target_url],
               [action |-> "wait", timeout |-> 2],
               [action |-> "extract", selector |-> "body", multiple |-> FALSE] >>
      [] OTHER -> <<>>

_get_default_url(task) ==
    CASE task = "search" -> "https://www.google.com"
      [] task \in {"navigate", "extract", "click", "screenshot"} -> "https://www.example.com"
      [] task = "fill_form" -> "https://www.example.com/contact"
      [] OTHER -> "https://www.google.com"

ParsedInstruction(task, query, filters, count, fields, target_url, selectors, actions, raw) ==
    [task |-> task, query |-> query, filters |-> filters, count |-> count,
     fields |-> fields, target_url |-> target_url, selectors |-> selectors,
     actions |-> actions, raw_instruction |-> raw]

_validate_and_enhance(p) ==
    LET p1 == IF ~Truthy(p.task) THEN [p EXCEPT !.task = "search"] ELSE p
        p2 == IF p1.query = <<>> THEN [p1 EXCEPT !.query = p1.raw_instruction] ELSE p1
        p3 == IF DOMAIN p2.selectors = {}
              THEN [p2 EXCEPT !.selectors = _get_default_selectors(p2.task)] ELSE p2
        p4 == IF p3.actions = <<>>
              THEN [p3 EXCEPT !.actions = _get_default_actions(p3)] ELSE p3
    IN  IF ~Truthy(p4.target_url)
        THEN [p4 EXCEPT !.target_url = _get_default_url(p4.task)] ELSE p4

DefaultFields == <<"title", "url">>

DefaultCount == 5

\* a heuristic that tests the navigation keywords first
NavigateFirst(instr) ==
    IF Contains(instr, <<"navigate">>) \/ Contains(instr, <<"go", "to">>) THEN "navigate"
    ELSE IF Contains(instr, <<"search">>) THEN "search"
    ELSE IF Contains(instr, <<"extract">>) \/ Contains(instr, <<"get">>) THEN "extract"
    ELSE IF Contains(instr, <<"fill">>) \/ Contains(instr, <<"form">>) THEN "fill_form"
    ELSE "search"

\* the keywords of the heuristic intent, tested in this order
FallbackTask(instr) ==
    IF Contains(instr, <<"search">>) THEN "search"
    ELSE IF Contains(instr, <<"navigate">>) \/ Contains(instr, <<"go", "to">>)
         THEN "navigate"
    ELSE IF Contains(instr, <<"extract">>) \/ Contains(instr, <<"get">>)
         THEN "extract"
    ELSE IF Contains(instr, <<"fill">>) \/ Contains(instr, <<"form">>)
         THEN "fill_form"
    ELSE "search"

_create_fallback_instruction(instr) ==
    LET task == FallbackTask(instr)
        bare == ParsedInstruction(task, instr, EmptyDict, DefaultCount, DefaultFields,
                                  None, EmptyDict, <<>>, instr)
    IN  ParsedInstruction(task, instr, EmptyDict, DefaultCount, DefaultFields,
                          _get_default_url(task), _get_default_selectors(task),
                          _get_default_actions(bare), instr)

\* What the language model returns for the prompt: <<>> when the gateway
\* raises or the text is not JSON, else <<plan_data>>.
parse(instr, response) ==
    IF response = <<>> THEN _create_fallback_instruction(instr)
    ELSE LET plan_data == response[1]
         IN  _validate_and_enhance(
                 ParsedInstruction(Get(plan_data, "task", "search"),
                                   Get(plan_data, "query", instr),
                                   Get(plan_data, "filters", EmptyDict),
                                   Get(plan_data, "count", DefaultCount),
                                   Get(plan_data, "fields", DefaultFields),
                                   Get(plan_data, "target_url", None),
                                   Get(plan_data, "selectors", EmptyDict),
                                   Get(plan_data, "actions", <<>>),
                                   instr))

(***************************************************************************)
(* StepPlanner (planner.py).                                               *)
(***************************************************************************)
DefaultTimeout == 10

DefaultRetries == 3

Step(action, selector, value, url, timeout, multiple, retries) ==
    [action |-> action, selector |-> selector, value |-> value, url |-> url,
     timeout |-> timeout, multiple |-> multiple, retries |-> retries]

_convert_actions_to_steps(actions) ==
    [n \in 1..Len(actions) |->
        LET a == actions[n]
        IN  Step(Get(a, "action", "goto"),
                 Get(a, "selector", None),
                 IF "value" \in DOMAIN a THEN <<a.value>> ELSE <<>>,
                 Get(a, "url", None),
                 Get(a, "timeout", DefaultTimeout),
                 Get(a, "multiple", FALSE),
                 Get(a, "retries", DefaultRetries))]

step_templates(task) ==
    CASE task = "navigate" ->
            << [action |-> "goto", timeout |-> 15], [action |-> "wait", timeout |-> 3] >>
      [] task = "extract" ->
            << [action |-> "goto", timeout |-> 15], [action |-> "wait", timeout |-> 3],
               [action |-> "extract", timeout |-> 10, multiple |-> TRUE] >>
      [] task = "fill_form" ->
            << [action |-> "goto", timeout |-> 15], [action |-> "wait", timeout |-> 2],
               [action |-> "fill", timeout |-> 10], [action |-> "click", timeout |-> 10] >>
      [] task = "click" ->
            << [action |-> "goto", timeout |-> 15], [action |-> "wait", timeout |-> 2],
               [action |-> "click", timeout |-> 10] >>
      [] task = "screenshot" ->
            << [action |-> "goto", timeout |-> 15], [action |-> "wait", timeout |-> 3],
               [action |-> "screenshot", timeout |-> 5] >>
      [] OTHER ->
            << [action |-> "goto", timeout |-> 15], [action |-> "wait", timeout |-> 2],
               [action |-> "fill", timeout |-> 10], [action |-> "click", timeout |-> 10],
               [action |-> "wait", timeout |-> 5],
               [action |-> "extract", timeout |-> 10, multiple |-> TRUE] >>

_generate_steps_from_template(p) ==
    LET template == step_templates(p.task)
    IN  [n \in 1..Len(template) |->
            Step(template[n].action, None, <<>>, None,
                 Get(template[n], "timeout", DefaultTimeout),
                 Get(template[n], "multiple", FALSE),
                 Get(template[n], "retries", DefaultRetries))]

_get_selector(p, selector_type) ==
    IF selector_type \in DOMAIN p.selectors THEN p.selectors[selector_type]
    ELSE CASE selector_type = "search_box" -> "input[name=q], input[type=search]"
           [] selector_type = "search_button" -> "button[type=submit], .search-button"
           [] selector_type = "results" -> ".result, .item"
           [] selector_type = "title" -> "h1, .title"
           [] selector_type = "price" -> ".price"
           [] selector_type = "link" -> "a, .link"
           [] OTHER -> "body"

_enhance_steps(plan_steps, p) ==
    [n \in 1..Len(plan_steps) |->
        LET s == plan_steps[n]
            s1 == IF s.action = "goto" /\ ~Truthy(s.url)
                  THEN [s EXCEPT !.url = p.target_url] ELSE s
            s2 == IF s1.action = "fill"
                  THEN [s1 EXCEPT !.selector = _get_selector(p, "search_box"),
                                  !.value = <<p.query>>]
                  ELSE s1
            s3 == IF s2.action = "click"
                  THEN [s2 EXCEPT !.selector = _get_selector(p, "search_button")] ELSE s2
        IN  IF s3.action = "extract"
            THEN [s3 EXCEPT !.selector = _get_selector(p, "results"), !.multiple = TRUE]
            ELSE s3]

WaitAfterActionTimeout == 2

\* the plan with nothing done for retries and timeouts
NoErrorHandling(plan_steps) == plan_steps

RECURSIVE _add_error_handling(_)
_add_error_handling(plan_steps) ==
    IF plan_steps = <<>> THEN <<>>
    ELSE LET s == Head(plan_steps)
             s1 == IF s.action \in {"click", "fill", "extract"}
                   THEN [s EXCEPT !.retries = Max(s.retries, 3)] ELSE s
             s2 == IF s1.action = "goto"
                   THEN [s1 EXCEPT !.timeout = Max(s1.timeout, 15)] ELSE s1
             rest == _add_error_handling(Tail(plan_steps))
         IN  IF s2.action \in {"click", "fill"}
             THEN <<s2, Step("wait", None, <<>>, None, WaitAfterActionTimeout, FALSE,
                             DefaultRetries)>> \o rest
             ELSE <<s2>> \o rest

_create_fallback_steps(p) ==
    << Step("goto", None, <<>>,
            IF Truthy(p.target_url) THEN p.target_url ELSE "https://www.google.com",
            15, FALSE, DefaultRetries),
       Step("wait", None, <<>>, None, 3, FALSE, DefaultRetries) >>
    \o (IF p.task = "search"
        THEN << Step("fill", "input[name=q]", <<p.query>>, None, 10, FALSE, DefaultRetries),
                Step("click", "button[type=submit]", <<>>, None, 10, FALSE, DefaultRetries),
                Step("wait", None, <<>>, None, 5, FALSE, DefaultRetries),
                Step("extract", "body", <<>>, None, 10, TRUE, DefaultRetries) >>
        ELSE <<>>)

\* An action dictionary may carry a metadata entry, given here by its JSON
\* type; it becomes Step.metadata, and step.metadata.update(...) of
\* _enhance_steps raises AttributeError on anything but an object.
plan_raises(p) ==
    \E n \in 1..Len(p.actions) :
        "metadata" \in DOMAIN p.actions[n] /\ p.actions[n].metadata # "object"

\* plan: the three passes, and the fallback steps when one of them raises
plan(p) ==
    IF plan_raises(p) THEN _create_fallback_steps(p)
    ELSE _add_error_handling(
             _enhance_steps(IF p.actions # <<>> THEN _convert_actions_to_steps(p.actions)
                            ELSE _generate_steps_from_template(p),
                            p))

(***************************************************************************)
(* SessionMemory (session_memory.py) and DataStorage (storage.py).         *)
(***************************************************************************)
max_memories == 100

memory_ttl_days == 7

\* the ticks of the wall clock in one day (timedelta(days=...))
TicksPerDay == 100

MemoryEntry(id, instr, success, task_type, timestamp, tid) ==
    [id |-> id, instruction |-> instr, success |-> success, task_type |-> task_type,
     timestamp |-> timestamp, task_id |-> tid]

KeepEverything(mems, clock) == mems

_cleanup_old_memories(mems, clock) ==
    LET Fresh(mem) == mem.timestamp > clock - memory_ttl_days * TicksPerDay
        fresh == SelectSeq(mems, Fresh)
    IN  IF Len(fresh) > max_memories
        THEN SubSeq(SortedBy(fresh, [n \in 1..Len(fresh) |-> fresh[n].timestamp], TRUE),
                    1, max_memories)
        ELSE fresh

\* add_memory: append, clean up (the save to disk swallows its errors);
\* id is the fresh uuid4 of the entry
add_memory(mems, id, instr, success, task_type, tid, clock) ==
    _cleanup_old_memories(
        Append(mems, MemoryEntry(id, instr, success, task_type, clock, tid)),
        clock)

CountTask(ctx, success) ==
    [total_tasks |-> ctx.total_tasks + 1,
     successful_tasks |-> ctx.successful_tasks + (IF success THEN 1 ELSE 0),
     failed_tasks |-> ctx.failed_tasks + (IF success THEN 0 ELSE 1)]

\* set(instruction.lower().split())
WordSet(instr) == {Lower(instr[i]) : i \in 1..Len(instr)}

\* find_similar_memories divides by the size of the union of the two word
\* sets: ZeroDivisionError when both are empty
find_similar_memories_raises(mems, instr) ==
    /\ WordSet(instr) = {}
    /\ \E i \in 1..Len(mems) : WordSet(mems[i].instruction) = {}

\* sorted(self.memories, key=lambda x: x.timestamp, reverse=True)[:limit]
get_recent_memories(mems, limit) ==
    limit_results(SortedBy(mems, [n \in 1..Len(mems) |-> mems[n].timestamp], TRUE), limit)

\* the scores are compared as exact fractions: a multiple of every size a
\* union of two word sets takes here
ScoreScale == 60

\* len(intersection) / len(union), times ScoreScale
Similarity(instruction_words, memory_words) ==
    (Cardinality(instruction_words \cap memory_words) * ScoreScale)
        \div Cardinality(instruction_words \cup memory_words)

\* the stable sort by score, descending, then the first limit entries, of
\* which those with a score above 0 are returned
find_similar_memories(mems, instr, limit) ==
    LET scores == [n \in 1..Len(mems) |->
                      Similarity(WordSet(instr), WordSet(mems[n].instruction))]
        order == SortedOrder(scores, TRUE)
        top == limit_results(order, limit)
        Scored(n) == scores[n] > 0
    IN  [k \in 1..Len(SelectSeq(top, Scored)) |-> mems[SelectSeq(top, Scored)[k]]]

\* what a session memory file can hold when the orchestrator is constructed
InitialMemories ==
    { <<>>,
      << MemoryEntry("m1", <<"search", "laptops">>, TRUE, "search", 100, "t0"),
         MemoryEntry("m2", <<>>, FALSE, "error", 900, "t0") >> }

InitialClock == 1000

(***************************************************************************)
(* Orchestrator (orchestrator.py): the pure parts.                         *)
(***************************************************************************)
LogEntry(level, message, tid, step, data) ==
    [level |-> level, message |-> message, task_id |-> tid, step |-> step, data |-> data]

\* parsed_instruction.count or 5
Limit(p) == IF p.count # 0 THEN p.count ELSE 5

\* a per-record price test that lets every record through
AnyPrice(result_dict, filters) == TRUE

\* the per-record price test of _extract_data_from_step_result, on dicts
WithinCeiling(result_dict, filters) ==
    LET max_price == Get(filters, "price_max", 0)
    IN  ~(max_price # 0 /\ result_dict.price # <<>>
          /\ PriceValue(result_dict.price) > max_price)

\* the value the function returns and whether its except branch logged
_extract_data_from_step_result(data, p) ==
    LET extracted == extract_from_playwright_data(data)
        dicts == [n \in 1..Len(extracted) |-> to_dict(extracted[n])]
        Keep(d) == WithinCeiling(d, p.filters)
        kept == SelectSeq(dicts, Keep)
        sort == Get(p.filters, "sort", None)
        raises == \/ sort = "rating" /\ sort_by_rating_raises(kept)
                  \/ sort = "price" /\ sort_by_price_raises(kept)
        sorted == IF sort = "rating" THEN sort_by_rating(kept, TRUE)
                  ELSE IF sort = "price" THEN sort_by_price(kept, FALSE)
                  ELSE kept
    IN  IF raises THEN [val |-> <<>>, raised |-> TRUE]
        ELSE [val |-> limit_results(sorted, Limit(p)), raised |-> FALSE]

_process_results(res, p) ==
    IF res = <<>> THEN [val |-> <<>>, raised |-> FALSE]
    ELSE LET f == p.filters
             r1 == deduplicate(res, <<>>)
             hasMax == "price_max" \in DOMAIN f
             maxRaises == hasMax /\ filter_by_price_raises(r1, <<f.price_max>>, <<>>)
             r2 == IF hasMax THEN filter_by_price(r1, <<f.price_max>>, <<>>) ELSE r1
             hasMin == "price_min" \in DOMAIN f
             minRaises == hasMin /\ filter_by_price_raises(r2, <<>>, <<f.price_min>>)
             r3 == IF hasMin THEN filter_by_price(r2, <<>>, <<f.price_min>>) ELSE r2
             sort == Get(f, "sort", None)
             sortRaises == \/ sort = "rating" /\ sort_by_rating_raises(r3)
                           \/ sort = "price" /\ sort_by_price_raises(r3)
             r4 == IF sort = "rating" THEN sort_by_rating(r3, TRUE)
                   ELSE IF sort = "price" THEN sort_by_price(r3, FALSE)
                   ELSE r3
         IN  IF maxRaises THEN [val |-> r1, raised |-> TRUE]
             ELSE IF minRaises THEN [val |-> r2, raised |-> TRUE]
             ELSE IF sortRaises THEN [val |-> r3, raised |-> TRUE]
             ELSE [val |-> limit_results(r4, Limit(p)), raised |-> FALSE]

(***************************************************************************)
(* The inputs of one execute call.                                         *)
(***************************************************************************)
TaskIds == {None, "t1"}

TwoExtracts ==
    << [action |-> "goto", url |-> "https://shop"], [action |-> "extract"],
       [action |-> "extract"] >>

OneExtract == << [action |-> "goto", url |-> "https://shop"], [action |-> "extract"] >>

\* an action kind the engine does not know, a step with no attempt allowed,
\* and a click between two extract steps
OddActions ==
    << [action |-> "scroll", retries |-> 2], [action |-> "screenshot", retries |-> 0],
       [action |-> "extract"], [action |-> "click"], [action |-> "extract"] >>

\* the plan_data documents the language model answers with
PlanData ==
    { [task |-> "screenshot"],
      [task |-> "search", filters |-> [price_max |-> 2], count |-> 1, actions |-> TwoExtracts],
      [task |-> "search", count |-> 1, actions |-> TwoExtracts],
      [task |-> "search", filters |-> [price_min |-> 2], count |-> 2, actions |-> OneExtract],
      [task |-> "search", filters |-> [sort |-> "rating"], actions |-> OneExtract],
      [task |-> "search", filters |-> [price_max |-> 2, price_min |-> 1, sort |-> "price"],
       actions |-> OneExtract],
      [task |-> "extract", filters |-> [price_max |-> 0], count |-> 0, actions |-> OneExtract],
      [task |-> "click", actions |-> OddActions] }

Responses == {<<>>} \cup {<<d>> : d \in PlanData}

(***************************************************************************)
(* BrowserController (browser_controller.py).                              *)
(***************************************************************************)
Resources == <<"playwright", "browser", "context", "page">>

NoBrowser == [r \in {Resources[n] : n \in 1..Len(Resources)} |-> "none"]

\* start(): the resources are acquired in order; acquired is how many were
\* when start returned or raised
Started(acquired) ==
    [r \in DOMAIN NoBrowser |->
        IF \E n \in 1..acquired : Resources[n] = r THEN "open" ELSE "none"]

\* close(): page, context, browser, playwright are closed in this order inside
\* one try; closes is how many close calls returned before one raised
Closed(b, closes) ==
    [r \in DOMAIN b |->
        IF b[r] = "open" /\ \E n \in 1..Len(Resources) :
                               Resources[n] = r /\ Len(Resources) - n < closes
        THEN "closed" ELSE b[r]]

ActionResult(success, data, error) == [success |-> success, data |-> data, error |-> error]

KnownActions == {"goto", "click", "fill", "extract", "wait", "screenshot"}

\* what the primitive _execute_step_with_retry calls for step s can return:
\* every primitive catches its own exceptions and returns a failed result
BrowserResults(s) ==
    CASE s.action = "wait" -> {ActionResult(TRUE, <<>>, None)}
      [] s.action = "extract" ->
            {ActionResult(FALSE, <<>>, "Timeout")}
            \cup {ActionResult(TRUE, data, None) : data \in Payloads}
      [] OTHER -> {ActionResult(TRUE, <<>>, None), ActionResult(FALSE, <<>>, "Timeout")}

(***************************************************************************)
(* Orchestrator.execute as a state machine.                                *)
(***************************************************************************)
NoReturn == [kind |-> "none"]

NoCall == [op |-> "none"]

\* LLMManager.__init__: the configured backends, by name
primary_adapter == "primary"

fallback_adapters == <<"fallback1", "fallback2">>

ExecutionResult(tid, status, instr, res, error_message, logs) ==
    [kind |-> "result", task_id |-> tid, status |-> status, instruction |-> instr,
     results |-> res, error_message |-> error_message, logs |-> logs]

Uuid(n) == "uuid-" \o ToString(n)

\* a call that always draws a fresh id
FreshTaskId(tid, n) == Uuid(n)

\* task_id or str(uuid.uuid4())
TaskIdFor(tid, n) == IF Truthy(tid) THEN tid ELSE Uuid(n)

\* a loop body that stops at no failure
NeverCritical(action) == FALSE

\* a loop body that stops at every failure
EveryFailureCritical(action) == TRUE

\* if step.action in ["goto", "click"]
IsCritical(action) == action \in {"goto", "click"}

\* the locals of an execute call that has not started
IdleCall ==
    [pc |-> "idle", instruction |-> <<>>, task_id |-> None, given_id |-> None,
     parsed |-> EmptyDict, steps |-> <<>>, step_i |-> 0, attempt |-> 0,
     last_error |-> None, executed |-> <<>>, results |-> <<>>, browser |-> NoBrowser,
     error_msg |-> None, returned |-> NoReturn, fetched |-> <<>>]

Init ==
    /\ pc = "idle"
    /\ instruction = <<>>
    /\ task_id = None
    /\ given_id = None
    /\ current_task_id = None
    /\ execution_logs = <<>>
    /\ parsed = EmptyDict
    /\ steps = <<>>
    /\ step_i = 0
    /\ attempt = 0
    /\ last_error = None
    /\ executed = <<>>
    /\ results = <<>>
    /\ browser = NoBrowser
    /\ error_msg = None
    /\ memories \in InitialMemories
    /\ session_context =
           [total_tasks |-> Len(memories),
            successful_tasks |-> Cardinality({i \in 1..Len(memories) : memories[i].success}),
            failed_tasks |-> Cardinality({i \in 1..Len(memories) : ~memories[i].success})]
    /\ storage = <<>>
    /\ now = InitialClock
    /\ uuids = 0
    /\ returned = NoReturn
    /\ fetched = <<>>
    /\ records = <<>>
    /\ call = NoCall
    /\ ret = None
    /\ current_adapter = primary_adapter
    /\ suspended = IdleCall

\* execute, lines 72-93: up to the plan
Execute(instr, tid, response) ==
    /\ pc = "idle"
    /\ returned = NoReturn
    /\ LET id == TaskIdFor(tid, uuids + 1)
           p == parse(instr, response)
           plan_steps == plan(p)
           starting == LogEntry("info", "Starting execution", id, 0, None)
       IN  /\ instruction' = instr
           /\ given_id' = tid
           /\ task_id' = id
           /\ current_task_id' = id
           /\ uuids' = IF Truthy(tid) THEN uuids ELSE uuids + 1
           /\ IF find_similar_memories_raises(memories, instr)
              THEN /\ execution_logs' = Append(execution_logs, starting)
                   /\ error_msg' = "division by zero"
                   /\ pc' = "except"
                   /\ UNCHANGED <<parsed, steps, executed>>
              ELSE /\ execution_logs' =
                          execution_logs \o
                          << starting,
                             LogEntry("info", "Retrieved context from memory", id, 0, None),
                             LogEntry("info", "Parsed instruction", id, 0, None),
                             LogEntry("info", "Planned execution steps", id, 0, None) >>
                   /\ parsed' = p
                   /\ steps' = plan_steps
                   /\ executed' = [n \in 1..Len(plan_steps) |-> 0]
                   /\ error_msg' = None
                   /\ pc' = "start_browser"
    /\ UNCHANGED <<step_i, attempt, last_error, results, browser, memories,
                   session_context, storage, now, returned, fetched, unitVars, suspended>>

\* async with BrowserController(...) as browser: __aenter__ -> start()
BrowserStart(acquired) ==
    /\ pc = "start_browser"
    /\ browser' = Started(acquired)
    /\ IF acquired < Len(Resources)
       THEN /\ error_msg' = "Failed to start browser"
            /\ pc' = "except"
            /\ UNCHANGED step_i
       ELSE /\ pc' = IF steps = <<>> THEN "close" ELSE "step"
            /\ step_i' = 1
            /\ UNCHANGED error_msg
    /\ UNCHANGED <<instruction, task_id, given_id, current_task_id, execution_logs,
                   parsed, steps, attempt, last_error, executed, results, memories,
                   session_context, storage, now, uuids, returned, fetched, unitVars, suspended>>

\* the head of the loop body of _execute_steps (the except of the loop body,
\* line 216, is never entered: _execute_step_with_retry catches what an
\* attempt raises, and the normaliser and _log raise nothing)
StepBegin ==
    /\ pc = "step"
    /\ execution_logs' =
           Append(execution_logs,
                  LogEntry("info", "Executing step", current_task_id, step_i, steps[step_i].action))
    /\ attempt' = 0
    /\ last_error' = None
    /\ pc' = "attempt"
    /\ UNCHANGED <<instruction, task_id, given_id, current_task_id, parsed, steps, step_i,
                   executed, results, browser, error_msg, memories, session_context,
                   storage, now, uuids, returned, fetched, unitVars, suspended>>

\* _execute_steps, lines 200-214: what the loop body does with step_result;
\* logs are the entries _execute_step_with_retry made
AfterStep(step_result, logs) ==
    LET s == steps[step_i]
        tid == current_task_id
        extracts == s.action = "extract" /\ step_result.success /\ step_result.data # <<>>
        ex == IF extracts THEN _extract_data_from_step_result(step_result.data, parsed)
              ELSE [val |-> <<>>, raised |-> FALSE]
        stops == ~step_result.success /\ IsCritical(s.action)
        entries ==
            IF step_result.success
            THEN <<LogEntry("info", "Step completed successfully", tid, step_i, None)>>
                 \o (IF ex.raised
                     THEN <<LogEntry("error", "Failed to extract data from step result",
                                     tid, step_i, None)>>
                     ELSE <<>>)
            ELSE <<LogEntry("warning", "Step failed", tid, step_i, step_result.error)>>
                 \o (IF stops
                     THEN <<LogEntry("error", "Critical step failed, stopping execution",
                                     tid, step_i, None)>>
                     ELSE <<>>)
    IN  /\ execution_logs' = execution_logs \o logs \o entries
        /\ results' = results \o ex.val
        /\ fetched' = IF extracts THEN Append(fetched, step_result.data) ELSE fetched
        /\ IF stops \/ step_i = Len(steps)
           THEN pc' = "close" /\ UNCHANGED step_i
           ELSE pc' = "step" /\ step_i' = step_i + 1

\* an attempt that calls a primitive of the browsing session: whatever the
\* primitive returns is returned at once
AttemptBrowser ==
    /\ pc = "attempt"
    /\ steps[step_i].action \in KnownActions
    /\ attempt < steps[step_i].retries
    /\ \E step_result \in BrowserResults(steps[step_i]) : AfterStep(step_result, <<>>)
    /\ executed' = [executed EXCEPT ![step_i] = @ + 1]
    /\ UNCHANGED <<instruction, task_id, given_id, current_task_id, parsed, steps, attempt,
                   last_error, browser, error_msg, memories, session_context, storage,
                   now, uuids, returned, unitVars, suspended>>

\* an attempt that raises (the action is not one the engine knows) and is
\* not the last: log, sleep, try again
AttemptRaisesRetry ==
    /\ pc = "attempt"
    /\ steps[step_i].action \notin KnownActions
    /\ attempt < steps[step_i].retries - 1
    /\ last_error' = "Unknown action"
    /\ execution_logs' =
           Append(execution_logs,
                  LogEntry("warning", "Step failed, retrying", current_task_id, step_i,
                           "Unknown action"))
    /\ attempt' = attempt + 1
    /\ executed' = [executed EXCEPT ![step_i] = @ + 1]
    /\ UNCHANGED <<pc, instruction, task_id, given_id, current_task_id, parsed, steps,
                   step_i, results, browser, error_msg, memories, session_context,
                   storage, now, uuids, returned, fetched, unitVars, suspended>>

\* the last attempt raises: log, leave the loop, return the failed result
AttemptRaisesLast ==
    /\ pc = "attempt"
    /\ steps[step_i].action \notin KnownActions
    /\ attempt = steps[step_i].retries - 1
    /\ last_error' = "Unknown action"
    /\ AfterStep(ActionResult(FALSE, <<>>, "Unknown action"),
                 <<LogEntry("error", "Step failed after attempts", current_task_id, step_i,
                            "Unknown action")>>)
    /\ executed' = [executed EXCEPT ![step_i] = @ + 1]
    /\ UNCHANGED <<instruction, task_id, given_id, current_task_id, parsed, steps, attempt,
                   browser, error_msg, memories, session_context, storage, now, uuids,
                   returned, unitVars, suspended>>

\* range(step.retries) is empty: no attempt, the failed result str(None)
AttemptNone ==
    /\ pc = "attempt"
    /\ attempt >= steps[step_i].retries
    /\ AfterStep(ActionResult(FALSE, <<>>, last_error), <<>>)
    /\ UNCHANGED <<instruction, task_id, given_id, current_task_id, parsed, steps, attempt,
                   last_error, executed, browser, error_msg, memories, session_context,
                   storage, now, uuids, returned, unitVars, suspended>>

\* __aexit__ -> close()
BrowserClose(closes) ==
    /\ pc = "close"
    /\ browser' = Closed(browser, closes)
    /\ pc' = "aggregate"
    /\ UNCHANGED <<instruction, task_id, given_id, current_task_id, execution_logs, parsed,
                   steps, step_i, attempt, last_error, executed, results, error_msg,
                   memories, session_context, storage, now, uuids, returned, fetched, unitVars, suspended>>

\* a file set save_task_result left on disk for one task result
TaskResult(tid, status, instr, res, files) ==
    [task_id |-> tid, status |-> status, instruction |-> instr, results |-> res,
     files |-> files]

\* the formats save_task_result writes, in order
StorageFormats == <<"json", "csv">>

FilesWritten(written) == {StorageFormats[n] : n \in 1..written}

\* execute, lines 98-126: the aggregation, the result and the memory entry
Processed == _process_results(results, parsed)

Status == IF results # <<>> THEN "success" ELSE "error"

LogsAfterProcessing ==
    IF Processed.raised
    THEN Append(execution_logs,
                LogEntry("error", "Failed to process results", current_task_id, 0, None))
    ELSE execution_logs

\* execute, lines 95-152: no exception escapes, the result is returned
Aggregate ==
    /\ pc = "aggregate"
    /\ memories' = add_memory(memories, Uuid(uuids + 1), instruction, Status = "success",
                              parsed.task, task_id, now)
    /\ session_context' = CountTask(session_context, Status = "success")
    /\ uuids' = uuids + 1
    /\ storage' = Append(storage,
                         TaskResult(task_id, Status, instruction, Processed.val,
                                    FilesWritten(Len(StorageFormats))))
    /\ returned' = ExecutionResult(task_id, Status, instruction, Processed.val, None,
                                   LogsAfterProcessing)
    /\ execution_logs' = <<>>
    /\ current_task_id' = None
    /\ pc' = "done"
    /\ UNCHANGED <<instruction, task_id, given_id, parsed, steps, step_i, attempt,
                   last_error, executed, results, browser, error_msg, now, fetched, unitVars, suspended>>

\* execute, lines 95-144: save_task_result raises after writing the first
\* written formats (storage.py line 90 re-raises)
AggregateStorageFails(written) ==
    /\ pc = "aggregate"
    /\ memories' = add_memory(memories, Uuid(uuids + 1), instruction, Status = "success",
                              parsed.task, task_id, now)
    /\ session_context' = CountTask(session_context, Status = "success")
    /\ uuids' = uuids + 1
    /\ storage' = IF written = 0 THEN storage
                  ELSE Append(storage,
                              TaskResult(task_id, Status, instruction, Processed.val,
                                         FilesWritten(written)))
    /\ execution_logs' = LogsAfterProcessing
    /\ error_msg' = "No space left on device"
    /\ pc' = "except"
    /\ UNCHANGED <<instruction, task_id, given_id, current_task_id, parsed, steps, step_i,
                   attempt, last_error, executed, results, browser, now, returned, fetched, unitVars, suspended>>

\* execute, lines 154-181: the except branch and the finally block
ExceptBranch ==
    /\ pc = "except"
    /\ memories' = add_memory(memories, Uuid(uuids + 1), instruction, FALSE, "error",
                              task_id, now)
    /\ session_context' = CountTask(session_context, FALSE)
    /\ uuids' = uuids + 1
    /\ returned' = ExecutionResult(task_id, "error", instruction, <<>>, error_msg,
                                   Append(execution_logs,
                                          LogEntry("error", "Task failed", current_task_id,
                                                   0, error_msg)))
    /\ execution_logs' = <<>>
    /\ current_task_id' = None
    /\ pc' = "done"
    /\ UNCHANGED <<instruction, task_id, given_id, parsed, steps, step_i, attempt,
                   last_error, executed, results, browser, error_msg, storage, now, fetched, unitVars, suspended>>

Next ==
    \/ \E instr \in Instructions, tid \in TaskIds, response \in Responses :
          Execute(instr, tid, response)
    \/ \E acquired \in 0..Len(Resources) : BrowserStart(acquired)
    \/ StepBegin
    \/ AttemptBrowser
    \/ AttemptRaisesRetry
    \/ AttemptRaisesLast
    \/ AttemptNone
    \/ \E closes \in 0..Len(Resources) : BrowserClose(closes)
    \/ Aggregate
    \/ \E written \in 0..(Len(StorageFormats) - 1) : AggregateStorageFails(written)
    \/ ExceptBranch

Spec == Init /\ [][Next]_vars

(***************************************************************************)
(* Properties of Orchestrator.execute.                                     *)
(***************************************************************************)
\* the log of the call: the orchestrator's while it runs, the copy attached
\* to the result once it has returned (the finally block clears the former)
Logs == IF pc = "done" THEN returned.logs ELSE execution_logs

\* the loop body recorded step n as failed
StepFailed(n) ==
    \E k \in 1..Len(Logs) : Logs[k].message = "Step failed" /\ Logs[k].step = n

\* an exception reached execute's except branch
ExceptionEscaped == error_msg # None

HasExtractStep == \E n \in 1..Len(steps) : steps[n].action = "extract"

\* the memory entries and the stored task results of this call
OwnMemories == {i \in 1..Len(memories) : memories[i].task_id = task_id}

OwnStored == {i \in 1..Len(storage) : storage[i].task_id = task_id}

\* C1: execute always goes on until it returns, what it returns is an
\* ExecutionResult whatever was raised on the way, and the result carries the
\* caller's task id when the caller gave one.
C1_ReturnsResult ==
    /\ pc # "done" => ENABLED Next
    /\ pc = "done" =>
          /\ returned.kind = "result"
          /\ Truthy(given_id) => returned.task_id = given_id
          /\ ExceptionEscaped =>
                returned.status = "error" /\ returned.error_message = error_msg

\* an exception was raised, the caller gave an id, and execute has returned
C1_Witness ==
    /\ pc = "done"
    /\ ExceptionEscaped
    /\ given_id = "t1"
    /\ returned.kind = "result"

C3_FailedOnlyAfterBudget ==
    \A n \in 1..Len(steps) : StepFailed(n) => executed[n] = steps[n].retries

\* C4: a call that returns without an exception having escaped has status
\* success if its final record list is non-empty or its plan has no extract
\* step.
C4_SuccessWithoutExtraction ==
    (pc = "done" /\ ~ExceptionEscaped
     /\ (returned.results # <<>> \/ ~HasExtractStep)) => returned.status = "success"

\* C5: a call returns status error only when an exception escaped to the
\* except branch.
C5_ErrorOnlyOnException ==
    (pc = "done" /\ returned.status = "error") => ExceptionEscaped

\* C6: when execute has returned, nothing the browsing session acquired is
\* still open.
C6_SessionClosed ==
    pc = "done" => \A r \in DOMAIN browser : browser[r] # "open"

\* C7: when execute has returned, session memory holds exactly one entry of
\* the call, and its success flag is true exactly when the returned status
\* is success.
C7_OneMemoryEntry ==
    pc = "done" =>
        /\ Cardinality(OwnMemories) = 1
        /\ \A i \in OwnMemories : memories[i].success <=> returned.status = "success"

\* C8: when execute has returned, the durable store holds exactly one task
\* result of the call, written in full.
C8_OneStoredResult ==
    pc = "done" =>
        /\ Cardinality(OwnStored) = 1
        /\ \A i \in OwnStored : storage[i].files = FilesWritten(Len(StorageFormats))

\* the price ceiling M and the count cap N of the intent hold of the list
\* execute returned
CeilingHolds(M) ==
    \A k \in 1..Len(returned.results) :
        returned.results[k].price # <<>> => PriceValue(returned.results[k].price) <= M

CapHolds(N) == Len(returned.results) <= N

C10_PriceBoundsApplied ==
    (pc = "done" /\ ~ExceptionEscaped /\ DOMAIN parsed # {}
     /\ {"price_min", "price_max"} \cap DOMAIN parsed.filters # {}) =>
        \A k \in 1..Len(returned.results) :
            LET price == returned.results[k].price
                f == parsed.filters
            IN  /\ price # <<>>
                /\ "price_min" \in DOMAIN f => PriceValue(price) >= f.price_min
                /\ "price_max" \in DOMAIN f => PriceValue(price) <= f.price_max

(***************************************************************************)
(* Calls made on a component directly.  The orchestrator stays as          *)
(* constructed, with no execute call under way.                            *)
(***************************************************************************)
UnitIdle ==
    /\ pc = "unit"
    /\ task_id = None
    /\ given_id = None
    /\ current_task_id = None
    /\ execution_logs = <<>>
    /\ parsed = EmptyDict
    /\ steps = <<>>
    /\ step_i = 0
    /\ attempt = 0
    /\ last_error = None
    /\ executed = <<>>
    /\ results = <<>>
    /\ browser = NoBrowser
    /\ error_msg = None
    /\ memories = <<>>
    /\ session_context = [total_tasks |-> 0, successful_tasks |-> 0, failed_tasks |-> 0]
    /\ storage = <<>>
    /\ now = InitialClock
    /\ uuids = 0
    /\ returned = NoReturn
    /\ fetched = <<>>
    /\ suspended = IdleCall

(***************************************************************************)
(* InstructionParser.parse and StepPlanner.plan, called directly.          *)
(***************************************************************************)
ParserInstructions ==
    { <<>>, <<"search", "laptops">>, <<"Research", "targets">>,
      <<"go", "to", "shop", "and", "Search">>, <<"navigate", "home">>,
      <<"Go", "to", "shop">>, <<"get", "information">>, <<"extract", "the", "form">>,
      <<"fill", "the", "form">>, <<"hello">> }

\* action lists a language model can put in its answer
MixedBudgets ==
    << [action |-> "goto", timeout |-> 5, retries |-> 0],
       [action |-> "click", retries |-> 1],
       [action |-> "extract", retries |-> 5],
       [action |-> "screenshot"] >>

TextMetadata == << [action |-> "goto"], [action |-> "extract", metadata |-> "string"] >>

ObjectMetadata ==
    << [action |-> "goto", url |-> ""], [action |-> "fill", metadata |-> "object"] >>

ParserPlanData ==
    { [task |-> "search"],
      [task |-> ""],
      [task |-> "purchase"],
      [task |-> "navigate", target_url |-> "https://shop"],
      [task |-> "extract"],
      [task |-> "fill_form"],
      [task |-> "click"],
      [task |-> "screenshot"],
      [query |-> <<"laptops">>,
       selectors |-> [search_box |-> "", search_button |-> "#go", results |-> ".item"]],
      [task |-> "click", actions |-> MixedBudgets],
      [task |-> "extract", actions |-> TextMetadata],
      [task |-> "search", actions |-> TextMetadata],
      [task |-> "search", actions |-> ObjectMetadata] }

ParserResponses == {<<>>} \cup {<<d>> : d \in ParserPlanData}

ParserInit ==
    /\ UnitIdle
    /\ instruction \in ParserInstructions
    /\ records = <<>>
    /\ call = NoCall
    /\ ret = None
    /\ current_adapter = primary_adapter

\* parser.parse(instruction), the gateway answering response
ParseCall(response) ==
    /\ pc = "unit"
    /\ call = NoCall
    /\ call' = [op |-> "parse", instruction |-> instruction, response |-> response]
    /\ ret' = parse(instruction, response)
    /\ UNCHANGED <<executeVars, records, current_adapter>>

\* planner.plan(parsed_instruction), on the intent parse returned
PlanCall ==
    /\ pc = "unit"
    /\ call.op = "parse"
    /\ call' = [op |-> "plan", parsed_instruction |-> ret]
    /\ ret' = plan(ret)
    /\ UNCHANGED <<executeVars, records, current_adapter>>

ParserNext ==
    \/ \E response \in ParserResponses : ParseCall(response)
    \/ PlanCall

ParserSpec == ParserInit /\ [][ParserNext]_vars

(***************************************************************************)
(* Properties of parse and plan.                                           *)
(***************************************************************************)
TaskKinds == {"search", "navigate", "extract", "fill_form", "click", "screenshot"}

\* C11: the intent parse returns has a task kind of the enumeration.
C11_TaskKindEnumerated ==
    call.op = "parse" => ret.task \in TaskKinds

\* C12: the intent parse returns has a non-empty selector map and a
\* non-empty action list.
C12_SelectorsAndActions ==
    call.op = "parse" => DOMAIN ret.selectors # {} /\ ret.actions # <<>>

\* the lower-cased text of the instruction of the call
InstructionLower == Lower(Join(call.instruction))

\* C13: when the gateway throws, parse returns the intent whose task kind
\* is search if the lower-cased instruction contains search, else navigate
\* if it contains navigate or go to, else extract if it contains extract or
\* get, else fill_form if it contains fill or form, else search, and whose
\* query and raw instruction are the instruction.
C13_HeuristicIntent ==
    (call.op = "parse" /\ call.response = <<>>) =>
        /\ ret.task =
              (IF IsSubstring("search", InstructionLower) THEN "search"
               ELSE IF IsSubstring("navigate", InstructionLower)
                       \/ IsSubstring("go to", InstructionLower) THEN "navigate"
               ELSE IF IsSubstring("extract", InstructionLower)
                       \/ IsSubstring("get", InstructionLower) THEN "extract"
               ELSE IF IsSubstring("fill", InstructionLower)
                       \/ IsSubstring("form", InstructionLower) THEN "fill_form"
               ELSE "search")
        /\ ret.query = call.instruction
        /\ ret.raw_instruction = call.instruction

\* the gateway threw on an instruction that has a navigation keyword before
\* the word Search, and parse returned a search intent
C13_Witness ==
    /\ call.op = "parse"
    /\ call.response = <<>>
    /\ call.instruction = <<"go", "to", "shop", "and", "Search">>
    /\ ret.task = "search"

\* C14: the plan is not empty, its click, fill and extract steps have a
\* retry budget of at least 3 and its goto steps a timeout of at least 15.
C14_BudgetsRaised ==
    call.op = "plan" =>
        /\ ret # <<>>
        /\ \A n \in 1..Len(ret) :
              /\ ret[n].action \in {"click", "fill", "extract"} => ret[n].retries >= 3
              /\ ret[n].action = "goto" => ret[n].timeout >= 15

\* the intent's own actions gave a click step a budget below 3 and a goto
\* step a timeout below 15, and plan returned steps made from them
C14_Witness ==
    /\ call.op = "plan"
    /\ ~plan_raises(call.parsed_instruction)
    /\ \E n \in 1..Len(call.parsed_instruction.actions) :
          LET a == call.parsed_instruction.actions[n]
          IN  a.action = "click" /\ "retries" \in DOMAIN a /\ a.retries < 3
    /\ \E n \in 1..Len(call.parsed_instruction.actions) :
          LET a == call.parsed_instruction.actions[n]
          IN  a.action = "goto" /\ "timeout" \in DOMAIN a /\ a.timeout < 15
    /\ \E n \in 1..Len(ret) : ret[n].action = "click"

\* C15: every step of the plan has a retry budget of at least 1.
C15_BudgetAtLeastOne ==
    call.op = "plan" => \A n \in 1..Len(ret) : ret[n].retries >= 1

\* C16: in the plan of an intent parse returned, every goto step has a
\* non-empty URL and every fill, click and extract step a non-empty selector.
C16_UrlsAndSelectors ==
    call.op = "plan" =>
        \A n \in 1..Len(ret) :
            /\ ret[n].action = "goto" => Truthy(ret[n].url)
            /\ ret[n].action \in {"fill", "click", "extract"} => Truthy(ret[n].selector)

(***************************************************************************)
(* LLMManager.generate (llm_adapter.py), called repeatedly.                *)
(***************************************************************************)
MaxGenerateCalls == 3

Adapters == {primary_adapter} \cup {fallback_adapters[n] : n \in 1..Len(fallback_adapters)}

\* what a backend does during one generate call: is_available() is false,
\* generate raises, or generate returns a response
AdapterBehaviours == {"unavailable", "fails", "responds"}

LLMResponse(model) == [kind |-> "response", model |-> model]

Raised(error) == [kind |-> "raise", error |-> error]

\* adapters_to_try of generate
adapters_to_try == <<current_adapter>> \o fallback_adapters

\* the positions of adapters_to_try at which the loop of generate returns
Responding(behaviour) ==
    {n \in 1..Len(adapters_to_try) : behaviour[adapters_to_try[n]] = "responds"}

GatewayInit ==
    /\ UnitIdle
    /\ instruction = <<>>
    /\ records = <<>>
    /\ call = NoCall
    /\ ret = None
    /\ current_adapter = primary_adapter

\* one generate call in which a backend answers: the first of adapters_to_try
\* that is available and does not raise
GenerateResponds(behaviour) ==
    /\ pc = "unit"
    /\ Get(call, "number", 0) < MaxGenerateCalls
    /\ Responding(behaviour) # {}
    /\ LET n == CHOOSE n \in Responding(behaviour) : \A m \in Responding(behaviour) : n <= m
       IN  /\ call' = [op |-> "generate", number |-> Get(call, "number", 0) + 1,
                       behaviour |-> behaviour, tried |-> SubSeq(adapters_to_try, 1, n)]
           /\ ret' = LLMResponse(adapters_to_try[n])
           /\ current_adapter' = adapters_to_try[n]
    /\ UNCHANGED <<executeVars, records>>

\* one generate call in which no backend of adapters_to_try answers
GenerateRaises(behaviour) ==
    /\ pc = "unit"
    /\ Get(call, "number", 0) < MaxGenerateCalls
    /\ Responding(behaviour) = {}
    /\ call' = [op |-> "generate", number |-> Get(call, "number", 0) + 1,
                behaviour |-> behaviour, tried |-> adapters_to_try]
    /\ ret' = Raised("All LLM adapters failed")
    /\ UNCHANGED <<executeVars, records, current_adapter>>

GatewayNext ==
    \/ \E behaviour \in [Adapters -> AdapterBehaviours] : GenerateResponds(behaviour)
    \/ \E behaviour \in [Adapters -> AdapterBehaviours] : GenerateRaises(behaviour)

GatewaySpec == GatewayInit /\ [][GatewayNext]_vars

\* the backends as configured: the primary, then the fallbacks in order
Configured == <<primary_adapter>> \o fallback_adapters

\* C17: a generate call tries the configured primary first and then the
\* fallbacks in their configured order, returns the response of the first
\* configured backend that is available and succeeds, and raises only if
\* none is.
C17_PrimaryThenFallbacks ==
    call.op = "generate" =>
        LET able == {n \in 1..Len(Configured) : call.behaviour[Configured[n]] = "responds"}
        IN  /\ call.tried = SubSeq(Configured, 1, Len(call.tried))
            /\ IF able = {} THEN ret.kind = "raise"
               ELSE /\ ret.kind = "response"
                    /\ \E n \in able : /\ \A m \in able : n <= m
                                       /\ ret.model = Configured[n]

(***************************************************************************)
(* ContentExtractor's list operations (extractor.py), called directly on   *)
(* lists of ExtractedData objects.                                         *)
(***************************************************************************)
MaxRecords == 3

MaxPrice == 4

SampleRecords ==
    { ExtractedData("Laptop A ", <<3>>, "https://shop/a", None, <<4>>),
      ExtractedData("laptop a", <<1>>, "https://shop/a", None, <<5>>),
      ExtractedData("laptop b", <<>>, None, None, <<>>),
      ExtractedData(None, <<2>>, "laptop b", None, <<4>>) }

RecordLists == SeqsUpTo(SampleRecords, MaxRecords)

KeyFieldLists ==
    { <<>>, <<"title">>, <<"url">>, <<"title", "url">>, <<"url", "title">>, <<"price">> }

ExtractorInit ==
    /\ UnitIdle
    /\ instruction = <<>>
    /\ records \in RecordLists
    /\ call = NoCall
    /\ ret = None
    /\ current_adapter = primary_adapter

\* extractor.deduplicate(records, key_fields)
DeduplicateCall(key_fields) ==
    /\ pc = "unit"
    /\ call = NoCall
    /\ call' = [op |-> "deduplicate", data |-> records, key_fields |-> key_fields]
    /\ ret' = deduplicate(records, key_fields)
    /\ UNCHANGED <<executeVars, records, current_adapter>>

\* extractor.filter_by_price(records, max_price=max_price)
FilterByPriceCall(max_price) ==
    /\ pc = "unit"
    /\ call = NoCall
    /\ call' = [op |-> "filter_by_price", data |-> records, max_price |-> max_price]
    /\ ret' = filter_by_price(records, <<max_price>>, <<>>)
    /\ UNCHANGED <<executeVars, records, current_adapter>>

\* extractor.limit_results(extractor.sort_by_rating(records), limit)
SortByRatingAndLimitCall(limit) ==
    /\ pc = "unit"
    /\ call = NoCall
    /\ call' = [op |-> "sort_by_rating", data |-> records, limit |-> limit]
    /\ ret' = limit_results(sort_by_rating(records, TRUE), limit)
    /\ UNCHANGED <<executeVars, records, current_adapter>>

\* extractor.sort_by_price(records), reverse left at its default False
SortByPriceCall ==
    /\ pc = "unit"
    /\ call = NoCall
    /\ call' = [op |-> "sort_by_price", data |-> records]
    /\ ret' = sort_by_price(records, FALSE)
    /\ UNCHANGED <<executeVars, records, current_adapter>>

ExtractorNext ==
    \/ \E key_fields \in KeyFieldLists : DeduplicateCall(key_fields)
    \/ \E max_price \in 0..MaxPrice : FilterByPriceCall(max_price)
    \/ \E limit \in 0..(MaxRecords + 1) : SortByRatingAndLimitCall(limit)
    \/ SortByPriceCall

ExtractorSpec == ExtractorInit /\ [][ExtractorNext]_vars

\* the records of a list at the positions of a set, in the order of the list
RECURSIVE RecordsAt(_, _, _)
RecordsAt(list, positions, from) ==
    IF from > Len(list) THEN <<>>
    ELSE (IF from \in positions THEN <<list[from]>> ELSE <<>>)
         \o RecordsAt(list, positions, from + 1)

\* the key deduplicate gives the record at position i of the call's list
KeyAt(i) ==
    JoinKey(KeyParts(call.data[i],
                     IF call.key_fields = <<>> THEN DefaultKeyFields ELSE call.key_fields))

C19_MaxPriceMonotonic ==
    call.op = "filter_by_price" =>
        \A m2 \in call.max_price..MaxPrice :
            Len(ret) <= Len(filter_by_price(call.data, <<m2>>, <<>>))

\* the rating sort_by_rating gives the record at position i of the call's
\* list: its number, 0 when it has none
RatingAt(i) == IF call.data[i].rating = <<>> THEN 0 ELSE call.data[i].rating[1]

\* the number of records of the call's list that come before the one at
\* position i in descending order of rating, ties in the order of the list
Before(i) ==
    Cardinality({j \in 1..Len(call.data) :
                    RatingAt(j) > RatingAt(i) \/ (RatingAt(j) = RatingAt(i) /\ j < i)})

\* C20: sort_by_rating followed by limit_results(N) returns min(N, len)
\* records: the record that has k records before it in descending order of
\* rating (ties in list order) is at position k + 1, for every k < N.
C20_TopRated ==
    call.op = "sort_by_rating" =>
        /\ Len(ret) = Min(call.limit, Len(call.data))
        /\ \A i \in 1..Len(call.data) : Before(i) < call.limit => ret[Before(i) + 1] = call.data[i]

\* the list had two different records of equal rating and one without
\* rating, the limit cut it, and the order was changed
C20_Witness ==
    /\ call.op = "sort_by_rating"
    /\ \E i, j \in 1..Len(call.data) :
          i < j /\ call.data[i] # call.data[j] /\ RatingAt(i) = RatingAt(j)
    /\ \E i \in 1..Len(call.data) : call.data[i].rating = <<>>
    /\ call.limit > 0
    /\ call.limit < Len(call.data)
    /\ ret # SubSeq(call.data, 1, call.limit)

\* C21: sort_by_price in its default ascending order returns the records
\* that have a price in non-decreasing order of price, followed by every
\* record that has none.
C21_UnpricedLast ==
    call.op = "sort_by_price" =>
        /\ Len(ret) = Len(call.data)
        /\ \E priced \in 0..Len(ret) :
              /\ \A n \in 1..priced : ret[n].price # <<>>
              /\ \A n \in 1..(priced - 1) : PriceValue(ret[n].price) <= PriceValue(ret[n + 1].price)
              /\ \A n \in (priced + 1)..Len(ret) : ret[n].price = <<>>

(***************************************************************************)
(* SessionMemory (session_memory.py), called directly: add_memory,         *)
(* get_recent_memories and find_similar_memories, one call at a time.      *)
(***************************************************************************)
MaxAdds == 2

MaxLimit == 2

\* the memories an earlier run saved after k add_memory calls, one tick
\* apart, the last one a tick before InitialClock (no entry is dropped
\* while k <= max_memories)
AfterAdds(k) ==
    LET SavedInstruction(n) ==
            IF n % 3 = 1 THEN <<"search", "laptops">>
            ELSE IF n % 3 = 2 THEN <<"Search", "phones">>
            ELSE <<>>
    IN  [n \in 1..k |-> MemoryEntry("saved-" \o ToString(n), SavedInstruction(n), TRUE,
                                     "search", InitialClock - k - 1 + n, None)]

\* what _load_from_disk finds: no file, or max_memories entries
SessionMemories == { <<>>, AfterAdds(max_memories) }

AddedInstructions == { <<"search", "laptops">>, <<>> }

QueryInstructions == { <<"search", "laptops">>, <<>> }

\* the ticks between two readings of datetime.now(): none within the
\* resolution of the clock, one, or the time-to-live
Elapsed == { 0, 1, memory_ttl_days * TicksPerDay }

MemoryInit ==
    /\ pc = "unit"
    /\ instruction = <<>>
    /\ task_id = None
    /\ given_id = None
    /\ current_task_id = None
    /\ execution_logs = <<>>
    /\ parsed = EmptyDict
    /\ steps = <<>>
    /\ step_i = 0
    /\ attempt = 0
    /\ last_error = None
    /\ executed = <<>>
    /\ results = <<>>
    /\ browser = NoBrowser
    /\ error_msg = None
    /\ memories \in SessionMemories
    /\ session_context = [total_tasks |-> Len(memories), successful_tasks |-> Len(memories),
                          failed_tasks |-> 0]
    /\ storage = <<>>
    /\ now = InitialClock
    /\ uuids = 0
    /\ returned = NoReturn
    /\ fetched = <<>>
    /\ records = <<>>
    /\ call = NoCall
    /\ ret = None
    /\ current_adapter = primary_adapter
    /\ suspended = IdleCall

\* the variables a SessionMemory call leaves alone
memoryFrame == <<pc, instruction, task_id, given_id, current_task_id, execution_logs,
                 parsed, steps, step_i, attempt, last_error, executed, results,
                 browser, error_msg, storage, returned, fetched, records, current_adapter,
                 suspended>>

\* memory.add_memory(instruction, result, success=True, task_type="search"),
\* elapsed ticks after the previous call
AddMemoryCall(instr, elapsed) ==
    /\ pc = "unit"
    /\ uuids < MaxAdds
    /\ now' = now + elapsed
    /\ uuids' = uuids + 1
    /\ memories' = add_memory(memories, Uuid(uuids'), instr, TRUE, "search", None, now')
    /\ session_context' = CountTask(session_context, TRUE)
    /\ call' = [op |-> "add_memory", before |-> memories,
                entry |-> MemoryEntry(Uuid(uuids'), instr, TRUE, "search", now', None)]
    /\ ret' = Uuid(uuids')
    /\ UNCHANGED memoryFrame

\* memory.get_recent_memories(limit)
GetRecentMemoriesCall(limit) ==
    /\ pc = "unit"
    /\ call' = [op |-> "get_recent_memories", limit |-> limit, 
                added |-> IF call.op = "add_memory" THEN <<call.entry>> ELSE <<>>]
    /\ ret' = get_recent_memories(memories, limit)
    /\ UNCHANGED <<memoryFrame, memories, session_context, now, uuids>>

\* memory.find_similar_memories(instruction, limit)
FindSimilarMemoriesCall(instr, limit) ==
    /\ pc = "unit"
    /\ call' = [op |-> "find_similar_memories", instruction |-> instr, limit |-> limit,
                raised |-> find_similar_memories_raises(memories, instr)]
    /\ ret' = IF find_similar_memories_raises(memories, instr) THEN <<>>
              ELSE find_similar_memories(memories, instr, limit)
    /\ UNCHANGED <<memoryFrame, memories, session_context, now, uuids>>

MemoryNext ==
    \/ \E instr \in AddedInstructions, elapsed \in Elapsed : AddMemoryCall(instr, elapsed)
    \/ \E limit \in 0..MaxLimit : GetRecentMemoriesCall(limit)
    \/ \E instr \in QueryInstructions, limit \in 0..MaxLimit :
          FindSimilarMemoriesCall(instr, limit)

MemorySpec == MemoryInit /\ [][MemoryNext]_vars

\* C22: get_recent_memories(1) called right after add_memory returns the
\* one entry that was added.
C22_AddedIsMostRecent ==
    (call.op = "get_recent_memories" /\ call.limit = 1 /\ call.added # <<>>) =>
        ret = call.added

\* C23: after add_memory every retained entry is one of the candidates (the
\* entries it found and the new one) and is not older than the time-to-live,
\* at most max_memories entries are retained, and a candidate within the
\* time-to-live is dropped only when max_memories entries at least as
\* recent are retained.
C23_RetentionPolicy ==
    call.op = "add_memory" =>
        LET candidates == Append(call.before, call.entry)
            dropped == {n \in 1..Len(candidates) :
                           \A k \in 1..Len(memories) : memories[k].id # candidates[n].id}
        IN  /\ \A k \in 1..Len(memories) :
                  /\ \E n \in 1..Len(candidates) : candidates[n] = memories[k]
                  /\ now - memories[k].timestamp <= memory_ttl_days * TicksPerDay
            /\ Len(memories) <= max_memories
            /\ \A n \in dropped :
                  candidates[n].timestamp > now - memory_ttl_days * TicksPerDay =>
                      /\ Len(memories) = max_memories
                      /\ \A k \in 1..Len(memories) :
                            memories[k].timestamp >= candidates[n].timestamp

\* add_memory found max_memories entries within the time-to-live and
\* dropped one of them to keep the new one
C23_Witness ==
    /\ call.op = "add_memory"
    /\ Len(call.before) = max_memories
    /\ Len(memories) = max_memories
    /\ \E k \in 1..Len(memories) : memories[k] = call.entry
    /\ \E n \in 1..Len(call.before) :
          /\ call.before[n].timestamp > now - memory_ttl_days * TicksPerDay
          /\ \A k \in 1..Len(memories) : memories[k] # call.before[n]

\* C24: find_similar_memories returns at most limit retained entries, each
\* of non-zero similarity, in non-increasing order of score, entries of
\* equal score in the order in which they were inserted.
C24_SimilarInInsertionOrder ==
    (call.op = "find_similar_memories" /\ ~call.raised) =>
        LET ScoreOf(mem) == Similarity(WordSet(call.instruction), WordSet(mem.instruction))
            saved == AfterAdds(max_memories)
            \* the position of an entry in the order of the add_memory calls:
            \* the entries of the earlier run first
            InsertionNumber(mem) ==
                IF \E n \in 1..Len(saved) : saved[n] = mem
                THEN CHOOSE n \in 1..Len(saved) : saved[n] = mem
                ELSE Len(saved) + (CHOOSE n \in 1..MaxAdds : Uuid(n) = mem.id)
        IN  /\ Len(ret) <= call.limit
            /\ \A k \in 1..Len(ret) :
                  /\ \E n \in 1..Len(memories) : memories[n] = ret[k]
                  /\ ScoreOf(ret[k]) > 0
            /\ \A k \in 1..(Len(ret) - 1) :
                  \/ ScoreOf(ret[k]) > ScoreOf(ret[k + 1])
                  \/ /\ ScoreOf(ret[k]) = ScoreOf(ret[k + 1])
                     /\ InsertionNumber(ret[k]) < InsertionNumber(ret[k + 1])

\* C25: the steps of one execute call are begun one at a time in plan
\* order (so the wait placed after a click or fill is begun before the step
\* that follows it), and after a fill, extract, wait or screenshot step
\* that ended in failure the next step of the plan is begun.
C25_PlanOrderAndContinue ==
    LET IsBegin(entry) == entry.message = "Executing step"
        begun == SelectSeq(Logs, IsBegin)
    IN  /\ \A k \in 1..Len(begun) : begun[k].step = k
        /\ \A n \in 1..(Len(steps) - 1) :
              (StepFailed(n) /\ steps[n].action \in {"fill", "extract", "wait", "screenshot"})
                  => \/ Len(begun) > n
                     \/ pc = "step" /\ step_i = n + 1

\* a fill step failed, the wait placed after it was begun, and so was the
\* step after the wait
C25_Witness ==
    /\ pc = "done"
    /\ \E n \in 1..(Len(steps) - 2) :
          /\ steps[n].action = "fill"
          /\ StepFailed(n)
          /\ steps[n + 1].action = "wait"
          /\ \E k \in 1..Len(Logs) : Logs[k].message = "Executing step" /\ Logs[k].step = n + 1
          /\ \E k \in 1..Len(Logs) : Logs[k].message = "Executing step" /\ Logs[k].step = n + 2

\* C26: in every plan that plan returns, each click step and each fill step
\* is immediately followed by a wait step.
C26_WaitAfterClickAndFill ==
    call.op = "plan" =>
        \A n \in 1..Len(ret) :
            ret[n].action \in {"click", "fill"} =>
                n < Len(ret) /\ ret[n + 1].action = "wait"

\* C27: for every extract step that succeeded with a non-empty payload, the
\* records the normaliser builds from the payload that are within the price
\* ceiling, up to the count cap, are in the running result set: it holds as
\* many records as the payloads give, each one built from a payload.
C27_RecordsAppended ==
    LET Keep(d) == WithinCeiling(d, parsed.filters)
        Within(data) ==
            LET extracted == extract_from_playwright_data(data)
            IN  SelectSeq([n \in 1..Len(extracted) |-> to_dict(extracted[n])], Keep)
        RECURSIVE Expected(_)
        Expected(k) ==
            IF k = 0 THEN 0
            ELSE Expected(k - 1) + Min(Limit(parsed), Len(Within(fetched[k])))
    IN  /\ Len(results) = Expected(Len(fetched))
        /\ \A n \in 1..Len(results) :
              \E k \in 1..Len(fetched) :
                  \E j \in 1..Len(Within(fetched[k])) : Within(fetched[k])[j] = results[n]

\* C28: with no price filter set, the list execute returns holds one record
\* for each distinct pair of title and url (case and surrounding whitespace
\* ignored) among the accumulated records, up to the count cap.
C28_OnePerTitleAndUrl ==
    (/\ pc = "done"
     /\ ~ExceptionEscaped
     /\ "price_max" \notin DOMAIN parsed.filters
     /\ "price_min" \notin DOMAIN parsed.filters) =>
        LET Pair(record) == <<LowerStrip(record.title), LowerStrip(record.url)>>
            pairs == {Pair(results[n]) : n \in 1..Len(results)}
        IN  /\ Len(returned.results) = Min(Limit(parsed), Cardinality(pairs))
            /\ \A n \in 1..Len(returned.results) : Pair(returned.results[n]) \in pairs
            /\ \A n, k \in 1..Len(returned.results) :
                  n # k => Pair(returned.results[n]) # Pair(returned.results[k])

(***************************************************************************)
(* Several execute calls on the one orchestrator app.py keeps.  The        *)
(* variables of execute's locals are those of the call that is running;    *)
(* suspended holds the locals of the other call.                           *)
(***************************************************************************)
MaxClears == 1

\* the other call runs on: the locals of the two calls change places, the
\* fields of the orchestrator stay as they are
Switch ==
    /\ suspended' =
           [pc |-> pc, instruction |-> instruction, task_id |-> task_id,
            given_id |-> given_id, parsed |-> parsed, steps |-> steps, step_i |-> step_i,
            attempt |-> attempt, last_error |-> last_error, executed |-> executed,
            results |-> results, browser |-> browser, error_msg |-> error_msg,
            returned |-> returned, fetched |-> fetched]
    /\ pc' = suspended.pc
    /\ instruction' = suspended.instruction
    /\ task_id' = suspended.task_id
    /\ given_id' = suspended.given_id
    /\ parsed' = suspended.parsed
    /\ steps' = suspended.steps
    /\ step_i' = suspended.step_i
    /\ attempt' = suspended.attempt
    /\ last_error' = suspended.last_error
    /\ executed' = suspended.executed
    /\ results' = suspended.results
    /\ browser' = suspended.browser
    /\ error_msg' = suspended.error_msg
    /\ returned' = suspended.returned
    /\ fetched' = suspended.fetched
    /\ UNCHANGED <<current_task_id, execution_logs, memories, session_context, storage,
                   now, uuids, unitVars>>

\* the running call is at an await that gives the event loop the control:
\* the start and the close of the browsing session, a primitive of the
\* session, the sleep before a retry
AtAwait ==
    \/ pc \in {"start_browser", "close"}
    \/ /\ pc = "attempt"
       /\ attempt < steps[step_i].retries
       /\ steps[step_i].action \in KnownActions \/ attempt > 0

\* two overlapping calls: the other one runs while this one waits or has returned
Resume ==
    /\ AtAwait \/ pc = "done"
    /\ suspended.pc # "done"
    /\ Switch

\* calls one at a time: the next call is made when this one has returned
NextCall ==
    /\ pc = "done"
    /\ suspended.pc = "idle"
    /\ Switch

\* Orchestrator.clear_memory, called while no execute call is running
ClearMemory ==
    /\ pc \in {"idle", "done"}
    /\ Len(execution_logs) < MaxClears
    /\ memories' = <<>>
    /\ session_context' = [total_tasks |-> 0, successful_tasks |-> 0, failed_tasks |-> 0]
    /\ execution_logs' =
           Append(execution_logs,
                  LogEntry("info", "Cleared session memory", current_task_id, 0, None))
    /\ UNCHANGED <<pc, instruction, task_id, given_id, current_task_id, parsed, steps,
                   step_i, attempt, last_error, executed, results, browser, error_msg,
                   storage, now, uuids, returned, fetched, unitVars, suspended>>

SessionInstructions == { <<"navigate", "home">> }

\* no usable reply (the fallback plan), and a plan with an action kind the
\* engine does not know and a step with no attempt allowed
SessionResponses ==
    { <<>>,
      << [task |-> "click",
          actions |-> << [action |-> "scroll", retries |-> 2],
                         [action |-> "screenshot", retries |-> 0] >>] >> }

\* the steps of an execute call after its plan is made
Running ==
    \/ \E acquired \in 0..Len(Resources) : BrowserStart(acquired)
    \/ StepBegin
    \/ AttemptBrowser
    \/ AttemptRaisesRetry
    \/ AttemptRaisesLast
    \/ AttemptNone
    \/ \E closes \in 0..Len(Resources) : BrowserClose(closes)
    \/ Aggregate
    \/ \E written \in 0..(Len(StorageFormats) - 1) : AggregateStorageFails(written)
    \/ ExceptBranch

SessionNext ==
    \/ \E instr \in SessionInstructions, tid \in TaskIds, response \in SessionResponses :
          Execute(instr, tid, response)
    \/ Running
    \/ NextCall
    \/ ClearMemory

SessionSpec == Init /\ [][SessionNext]_vars

ConcurrentNext ==
    \/ \E instr \in SessionInstructions, tid \in TaskIds, response \in SessionResponses :
          Execute(instr, tid, response)
    \/ Running
    \/ Resume

ConcurrentSpec == Init /\ [][ConcurrentNext]_vars

\* C29: with execute and clear_memory called one at a time, every entry of
\* the log in a returned ExecutionResult carries the task id of that result,
\* and the log begins with the entry the task made when it started (nothing
\* recorded before the task started is in it).
C29_LogOfThisTaskOnly ==
    pc = "done" =>
        /\ \A n \in 1..Len(returned.logs) : returned.logs[n].task_id = returned.task_id
        /\ returned.logs # <<>>
        /\ returned.logs[1] = LogEntry("info", "Starting execution", returned.task_id, 0, None)

\* C30: when two execute calls overlap, the log in each returned
\* ExecutionResult holds entries tagged with its own task id only, begins with
\* the task's starting entry, and has exactly one "Executing step" entry for
\* each step the call began and none for a step it did not begin.
C30_OverlappingLogsSeparate ==
    pc = "done" =>
        LET own == returned.logs
            StepEntries(n) ==
                {k \in 1..Len(own) : own[k].message = "Executing step" /\ own[k].step = n}
        IN  /\ \A k \in 1..Len(own) : own[k].task_id = task_id
            /\ own # <<>>
            /\ own[1].message = "Starting execution"
            /\ \A n \in 1..Len(steps) :
                  Cardinality(StepEntries(n)) = IF n <= step_i THEN 1 ELSE 0

====
